---- MODULE Spec2Model ----
(***************************************************************************)
(* Model of dashboard.py: the Streamlit sales dashboard of the coffeeshop  *)
(* repository.  One script run is load_data (cached), the sidebar widgets, *)
(* the row mask, the three group-by aggregates and the display table; a    *)
(* widget change reruns the script from the top.                           *)
(*                                                                         *)
(* Values.  A column name is a sequence of one-character strings, so that  *)
(* str.strip and str.lower are computed and not assumed.  A cell is a      *)
(* record [k, v]: k = "null" (NaN / NaT / empty cell), "text", "num" (a    *)
(* number, v counted in units of 1/Denom so that fractions exist), "int"   *)
(* (a whole number, as astype(int) produces) or "dt" (a timestamp, v       *)
(* counted in ticks, TicksPerDay ticks to the calendar day).  A table is   *)
(* [columns, rows], each row a sequence of cells aligned with columns.     *)
(***************************************************************************)
EXTENDS Integers, Sequences, FiniteSets, TLC

VARIABLES
    file,            \* dataset_clean.xlsx as it lies on disk (never written)
    cache,           \* st.cache_data entry of load_data: [hit, table]
    ui,              \* widget state of the session: what the user picked
    pc,              \* position of the current script run
    err,             \* st.error has been shown in this run
    df,              \* the table load_data returned to this run
    min_date, max_date,
    date_range,      \* value returned by st.sidebar.date_input
    start_date, end_date,
    kategori_list, selected_kat,
    item_list, selected_items,
    top_n,
    filtered,
    bar, line, pie,
    display_df

vars == <<file, cache, ui, pc, err, df, min_date, max_date, date_range,
          start_date, end_date, kategori_list, selected_kat, item_list,
          selected_items, top_n, filtered, bar, line, pie, display_df>>

-----------------------------------------------------------------------------
(* Bounds of the model *)

\* Most rows a dataset of the model has.
MaxRows == 2

\* Resolution of a fractional number: a "num" cell holds v/Denom.
Denom == 2

\* Resolution of the time of day: a "dt" cell holds day * TicksPerDay + tick.
TicksPerDay == 2

-----------------------------------------------------------------------------
(* Cells *)

Null == [k |-> "null", v |-> 0]
Text(s) == [k |-> "text", v |-> s]
Num(n) == [k |-> "num", v |-> n]
IntCell(n) == [k |-> "int", v |-> n]
Dt(t) == [k |-> "dt", v |-> t]

\* A whole number n as a "num" cell.
Whole(n) == Num(n * Denom)

\* A timestamp on calendar day d, tick ticks after midnight.
At(d, tick) == Dt(d * TicksPerDay + tick)

IsNull(c) == c.k = "null"

-----------------------------------------------------------------------------
(* Column names *)

UpperChars == <<"A", "B", "C", "D", "E", "F", "G", "H", "I", "J", "K", "L", "M",
                "N", "O", "P", "Q", "R", "S", "T", "U", "V", "W", "X", "Y", "Z">>
LowerChars == <<"a", "b", "c", "d", "e", "f", "g", "h", "i", "j", "k", "l", "m",
                "n", "o", "p", "q", "r", "s", "t", "u", "v", "w", "x", "y", "z">>

\* The lower-case letter of each upper-case one, and the reverse.
LowerOf ==
    [ch \in {UpperChars[i] : i \in 1..Len(UpperChars)} |->
        LowerChars[CHOOSE i \in 1..Len(UpperChars) : UpperChars[i] = ch]]
UpperOf ==
    [ch \in {LowerChars[i] : i \in 1..Len(LowerChars)} |->
        UpperChars[CHOOSE i \in 1..Len(LowerChars) : LowerChars[i] = ch]]

LowerChar(ch) == IF ch \in DOMAIN LowerOf THEN LowerOf[ch] ELSE ch

UpperChar(ch) == IF ch \in DOMAIN UpperOf THEN UpperOf[ch] ELSE ch

\* str.lower
Lower(name) == [i \in 1..Len(name) |-> LowerChar(name[i])]

\* str.upper (used to build inputs only)
Upper(name) == [i \in 1..Len(name) |-> UpperChar(name[i])]

Whitespace == {" ", "\t"}

RECURSIVE LStrip(_)
LStrip(name) ==
    IF name # <<>> /\ Head(name) \in Whitespace THEN LStrip(Tail(name)) ELSE name

RECURSIVE RStrip(_)
RStrip(name) ==
    IF name # <<>> /\ name[Len(name)] \in Whitespace
    THEN RStrip(SubSeq(name, 1, Len(name) - 1))
    ELSE name

\* str.strip
Strip(name) == RStrip(LStrip(name))

Tanggal == <<"T", "a", "n", "g", "g", "a", "l">>
Kategori == <<"K", "a", "t", "e", "g", "o", "r", "i">>
Nama_Item == <<"N", "a", "m", "a", "_", "I", "t", "e", "m">>
Jumlah == <<"J", "u", "m", "l", "a", "h">>
Total_Penjualan == <<"T", "o", "t", "a", "l", "_", "P", "e", "n", "j", "u", "a", "l", "a", "n">>

expected == <<Tanggal, Kategori, Nama_Item, Jumlah, Total_Penjualan>>

-----------------------------------------------------------------------------
(* Tables *)

NoTable == [columns |-> <<>>, rows |-> <<>>]

HasColumn(t, name) == \E i \in 1..Len(t.columns) : t.columns[i] = name

\* Position of the column called name (the model's inputs have no two
\* columns of one name after stripping).
ColIndex(t, name) == CHOOSE i \in 1..Len(t.columns) : t.columns[i] = name

\* t[name] of row r
Cell(t, r, name) == t.rows[r][ColIndex(t, name)]

\* t[name] = cells, one cell per row
SetColumn(t, name, cells) ==
    [t EXCEPT !.rows =
        [r \in 1..Len(t.rows) |-> [t.rows[r] EXCEPT ![ColIndex(t, name)] = cells[r]]]]

-----------------------------------------------------------------------------
(* load_data *)

\* Cell texts pandas' reader takes for a missing value (a part of its
\* default na_values; an empty cell arrives as "").
NaStrings == {"", "NA", "N/A"}

ReadCell(c) == IF c.k = "text" /\ c.v \in NaStrings THEN Null ELSE c

\* pd.read_excel(path): raises when the file cannot be opened or parsed.
ReadExcel(f) ==
    IF ~f.exists
    THEN [ok |-> FALSE, error |-> "FileNotFoundError", table |-> NoTable]
    ELSE [ok |-> TRUE, error |-> "",
          table |-> [columns |-> f.columns,
                     rows |-> [r \in 1..Len(f.rows) |->
                                 [j \in 1..Len(f.rows[r]) |-> ReadCell(f.rows[r][j])]]]]

\* df.rename(columns=lambda c: c.strip())
StripColumns(t) == [t EXCEPT !.columns = [i \in 1..Len(t.columns) |-> Strip(t.columns[i])]]

\* {c.lower(): c for c in df.columns}: a later column replaces an earlier
\* one of the same lowercase name.
LowerMap(t) ==
    [key \in {Lower(t.columns[i]) : i \in 1..Len(t.columns)} |->
        LET last == CHOOSE i \in 1..Len(t.columns) :
                        /\ Lower(t.columns[i]) = key
                        /\ \A j \in 1..Len(t.columns) : Lower(t.columns[j]) = key => j <= i
        IN t.columns[last]]

\* df.rename(columns={old: new})
Rename(t, old, new) ==
    [t EXCEPT !.columns = [i \in 1..Len(t.columns) |->
                              IF t.columns[i] = old THEN new ELSE t.columns[i]]]

\* RenameOne comparing the names as they are written only.
RenameOneExact(t, lower_map, col) == t

\* Body of "for col in expected" for one col.
RenameOne(t, lower_map, col) ==
    IF ~HasColumn(t, col) /\ Lower(col) \in DOMAIN lower_map
    THEN Rename(t, lower_map[Lower(col)], col)
    ELSE t

RECURSIVE RenameLoop(_, _, _)
RenameLoop(t, lower_map, i) ==
    IF i > Len(expected) THEN t
    ELSE RenameLoop(RenameOne(t, lower_map, expected[i]), lower_map, i + 1)

\* Lines 32-40: strip, then rename case-insensitive matches.
NormalizeColumns(t) ==
    LET stripped == StripColumns(t)
    IN RenameLoop(stripped, LowerMap(stripped), 1)

\* Texts that parse as a number, with their value.
NumericText == {"3", "-2"}
TextNumber(s) == IF s = "3" THEN 3 * Denom ELSE -2 * Denom

\* Texts that parse as a date, with their timestamp.
DateText == {"1970-01-02"}
TextDate(s) == 1 * TicksPerDay

\* pd.to_datetime(x, errors="coerce") of one cell
ToDatetimeCoerce(c) ==
    CASE c.k = "dt" -> c
      [] c.k = "text" /\ c.v \in DateText -> Dt(TextDate(c.v))
      [] OTHER -> Null

\* pd.to_numeric(x, errors="coerce") of one cell
ToNumericCoerce(c) ==
    CASE c.k = "num" -> c
      [] c.k = "text" /\ c.v \in NumericText -> Num(TextNumber(c.v))
      [] OTHER -> Null

\* .fillna(0)
FillZero(c) == IF IsNull(c) THEN Num(0) ELSE c

\* Truncation toward zero of v/Denom.
Trunc(v) == IF v >= 0 THEN v \div Denom ELSE -((-v) \div Denom)

\* .astype(int)
AsInt(c) == IntCell(Trunc(c.v))

Unknown == "Tidak diketahui"

\* .fillna("Tidak diketahui")
FillUnknown(c) == IF IsNull(c) THEN Text(Unknown) ELSE c

\* .astype(str) (the model's text columns hold whole numbers only)
AsStr(c) == IF c.k = "text" THEN c ELSE Text(ToString(Trunc(c.v)))

ConvTanggal(c) == ToDatetimeCoerce(c)
\* ConvJumlah without the cast to int.
ConvJumlahFloat(c) == FillZero(ToNumericCoerce(c))

ConvJumlah(c) == AsInt(FillZero(ToNumericCoerce(c)))
ConvTotal(c) == FillZero(ToNumericCoerce(c))
ConvLabel(c) == AsStr(FillUnknown(c))

\* Lines 43-49 read the columns in this order; the first one absent raises
\* KeyError.
AccessOrder == <<Tanggal, Jumlah, Total_Penjualan, Kategori, Nama_Item>>

MissingColumns(t) == {i \in 1..Len(AccessOrder) : ~HasColumn(t, AccessOrder[i])}

\* Lines 43-49 on a table that has the five columns.
ConvertColumns(t) ==
    LET n == Len(t.rows)
        t1 == SetColumn(t, Tanggal, [r \in 1..n |-> ConvTanggal(Cell(t, r, Tanggal))])
        t2 == SetColumn(t1, Jumlah, [r \in 1..n |-> ConvJumlah(Cell(t1, r, Jumlah))])
        t3 == SetColumn(t2, Total_Penjualan,
                        [r \in 1..n |-> ConvTotal(Cell(t2, r, Total_Penjualan))])
        t4 == SetColumn(t3, Kategori, [r \in 1..n |-> ConvLabel(Cell(t3, r, Kategori))])
    IN SetColumn(t4, Nama_Item, [r \in 1..n |-> ConvLabel(Cell(t4, r, Nama_Item))])

\* load_data(path): [ok, error, table]; not ok stands for a raised exception.
LoadData(f) ==
    LET read == ReadExcel(f)
        t == NormalizeColumns(read.table)
    IN IF ~read.ok THEN read
       ELSE IF MissingColumns(t) # {}
       THEN [ok |-> FALSE, error |-> "KeyError", table |-> NoTable]
       ELSE [ok |-> TRUE, error |-> "", table |-> ConvertColumns(t)]

-----------------------------------------------------------------------------
(* The cached call and its handler: lines 29 and 53-57 *)

NoCache == [hit |-> FALSE, table |-> NoTable]

\* load_data() under @st.cache_data: the stored table on a hit, else the
\* function's result (an exception is never stored).
CachedLoad(c, f) ==
    IF c.hit THEN [ok |-> TRUE, error |-> "", table |-> c.table] ELSE LoadData(f)

\* AfterLoadError without st.stop().
AfterLoadErrorNoStop == "loaded"

\* Where the run goes after "except Exception": st.error, then st.stop.
AfterLoadError == "stopped"

-----------------------------------------------------------------------------
(* Sidebar: lines 63-76 *)

Date(d) == [k |-> "date", v |-> d]

\* datetime.date() of a timestamp: the time of day is dropped (NaT stays NaT).
ToDate(c) == IF IsNull(c) THEN Null ELSE Date(c.v \div TicksPerDay)

\* pd.to_datetime of a date (midnight of that day), a timestamp or NaT.
ToDatetime(x) == IF x.k = "date" THEN Dt(x.v * TicksPerDay) ELSE x

NonNullRows(t, name) == {r \in 1..Len(t.rows) : ~IsNull(Cell(t, r, name))}

\* df[name].min(): NaT when no row has a value
ColumnMin(t, name) ==
    IF NonNullRows(t, name) = {} THEN Null
    ELSE Cell(t, CHOOSE r \in NonNullRows(t, name) :
                    \A q \in NonNullRows(t, name) : Cell(t, r, name).v <= Cell(t, q, name).v,
              name)

\* df[name].max()
ColumnMax(t, name) ==
    IF NonNullRows(t, name) = {} THEN Null
    ELSE Cell(t, CHOOSE r \in NonNullRows(t, name) :
                    \A q \in NonNullRows(t, name) : Cell(t, r, name).v >= Cell(t, q, name).v,
              name)

\* Python's order of the label texts of the model (by code point).
LabelOrder == <<"-2", "3", "Coffee", "Croissant", "Espresso", "Food", "Latte",
                "Mocha", "Tidak diketahui">>

Rank(s) == CHOOSE i \in 1..Len(LabelOrder) : LabelOrder[i] = s

RECURSIVE SortPairs(_)
\* The values of the pairs <<rank, value>> of P in increasing order of rank.
SortPairs(P) ==
    IF P = {} THEN <<>>
    ELSE LET m == CHOOSE x \in P : \A y \in P : x[1] <= y[1]
         IN <<m[2]>> \o SortPairs(P \ {m})

\* sorted(df[name].unique()) of a text column
SortedUnique(t, name) ==
    SortPairs({<<Rank(Cell(t, r, name).v), Cell(t, r, name).v>> : r \in 1..Len(t.rows)})

Semua == "Semua"

\* Slider bounds and default of line 76.
TopNMin == 3
TopNMax == 20
TopNDefault == 8

\* Nothing picked yet: every widget returns its default.
NoPicks == [date_range |-> [set |-> FALSE, v |-> <<>>],
            kat |-> [set |-> FALSE, v |-> Semua],
            items |-> [set |-> FALSE, v |-> {}],
            top_n |-> [set |-> FALSE, v |-> TopNDefault]]

\* st.sidebar.date_input(label, (min_date, max_date)): the user's pick, else
\* the default, which the widget keeps as dates.
DateInput(w, lo, hi) == IF w.set THEN w.v ELSE <<ToDate(lo), ToDate(hi)>>

\* st.sidebar.selectbox(label, options): the pick, else the first option.
SelectBox(w, options) == IF w.set THEN w.v ELSE options[1]

\* st.sidebar.multiselect(label, options, default=options)
MultiSelect(w, options) ==
    IF w.set THEN w.v ELSE {options[i] : i \in 1..Len(options)}

\* st.sidebar.slider(label, 3, 20, 8)
Slider(w) == IF w.set THEN w.v ELSE TopNDefault

\* Bounds taking a lone start date for both ends.
BoundsPartial(range, lo, hi) ==
    IF Len(range) = 2 THEN range
    ELSE IF Len(range) = 1 THEN <<range[1], range[1]>>
    ELSE <<lo, hi>>

\* Line 65: the two dates picked, else the table's own range.
Bounds(range, lo, hi) == IF Len(range) = 2 THEN range ELSE <<lo, hi>>

-----------------------------------------------------------------------------
(* Filter: lines 79-87 *)

\* Series >= timestamp, <= timestamp: False wherever either side is NaT.
Ge(c, b) == ~IsNull(c) /\ ~IsNull(b) /\ c.v >= b.v
Le(c, b) == ~IsNull(c) /\ ~IsNull(b) /\ c.v <= b.v

\* Line 79
DateMask(t, s, e) ==
    [r \in 1..Len(t.rows) |->
        Ge(Cell(t, r, Tanggal), ToDatetime(s)) /\ Le(Cell(t, r, Tanggal), ToDatetime(e))]

\* MaskAnd with | in place of &.
MaskOr(m, other) == [r \in 1..Len(m) |-> m[r] \/ other[r]]

\* mask &= other
MaskAnd(m, other) == [r \in 1..Len(m) |-> m[r] /\ other[r]]

\* Lines 81-82
KatMask(t, m, kat) ==
    IF kat # Semua
    THEN MaskAnd(m, [r \in 1..Len(t.rows) |-> Cell(t, r, Kategori).v = kat])
    ELSE m

\* Lines 84-85: an empty selection is falsy and adds no condition.
ItemMask(t, m, items) ==
    IF items # {}
    THEN MaskAnd(m, [r \in 1..Len(t.rows) |-> Cell(t, r, Nama_Item).v \in items])
    ELSE m

\* Lines 79-85
Mask(t, s, e, kat, items) == ItemMask(t, KatMask(t, DateMask(t, s, e), kat), items)

RECURSIVE Pick(_, _, _)
\* rows[r..] where mask is True, in order
Pick(rows, mask, r) ==
    IF r > Len(rows) THEN <<>>
    ELSE (IF mask[r] THEN <<rows[r]>> ELSE <<>>) \o Pick(rows, mask, r + 1)

\* df[mask]
Select(t, mask) == [t EXCEPT !.rows = Pick(t.rows, mask, 1)]

-----------------------------------------------------------------------------
(* Aggregates: lines 103, 112, 120-121 *)

\* Order of group keys: texts as Python orders them, timestamps by time.
KeyRank(c) == IF c.k = "text" THEN Rank(c.v) ELSE c.v

RECURSIVE SumWhereFirst(_, _, _, _)
\* SumWhere that keeps the first row of a group only.
SumWhereFirst(t, name, key, r) ==
    IF r > Len(t.rows) THEN 0
    ELSE IF Cell(t, r, name) = key THEN Cell(t, r, Total_Penjualan).v
    ELSE SumWhereFirst(t, name, key, r + 1)

RECURSIVE SumWhere(_, _, _, _)
\* Sum of Total_Penjualan over the rows r.. of t whose name cell is key.
SumWhere(t, name, key, r) ==
    IF r > Len(t.rows) THEN 0
    ELSE (IF Cell(t, r, name) = key THEN Cell(t, r, Total_Penjualan).v ELSE 0)
         + SumWhere(t, name, key, r + 1)

\* Keys groupby keeps: the distinct values, a null key dropped (dropna=True).
GroupKeys(t, name) == {Cell(t, r, name) : r \in NonNullRows(t, name)}

\* t.groupby(name)["Total_Penjualan"].sum().reset_index(): one row
\* [key, sum] per key, keys ascending.
GroupSum(t, name) ==
    LET keys == SortPairs({<<KeyRank(c), c>> : c \in GroupKeys(t, name)})
    IN [i \in 1..Len(keys) |-> [key |-> keys[i], sum |-> SumWhere(t, name, keys[i], 1)]]

Perms(n) == {p \in [1..n -> 1..n] : \A i, j \in 1..n : p[i] = p[j] => i = j}

NonIncreasing(s) == \A i \in 1..(Len(s) - 1) : s[i].sum >= s[i + 1].sum

\* sort_values("Total_Penjualan", ascending=False): the default kind is
\* quicksort, which promises no order among equal totals, so every
\* non-increasing arrangement is a possible result.
SortValuesDesc(s) ==
    {o \in {[i \in 1..Len(s) |-> s[p[i]]] : p \in Perms(Len(s))} : NonIncreasing(o)}

\* .head(n)
HeadN(s, n) == SubSeq(s, 1, IF n < Len(s) THEN n ELSE Len(s))

\* Line 121: the results the sort and the cut can give.
TopN(s, n) == {HeadN(o, n) : o \in SortValuesDesc(s)}

-----------------------------------------------------------------------------
(* Display table: lines 141-142 *)

\* round-half-even of v/Denom, for v >= 0
RoundHalfEven(v) ==
    LET q == v \div Denom
        rem == v % Denom
    IN IF 2 * rem < Denom THEN q
       ELSE IF 2 * rem > Denom THEN q + 1
       ELSE IF q % 2 = 0 THEN q ELSE q + 1

Pad3(r) ==
    IF r < 10 THEN "00" \o ToString(r)
    ELSE IF r < 100 THEN "0" \o ToString(r)
    ELSE ToString(r)

RECURSIVE Grouped(_)
\* n >= 0 in decimal with a comma between groups of three digits
Grouped(n) ==
    IF n < 1000 THEN ToString(n)
    ELSE Grouped(n \div 1000) \o "," \o Pad3(n % 1000)

\* "{:,.0f}".format(x) of one cell
FormatAmount(c) ==
    Text((IF c.v < 0 THEN "-" ELSE "") \o Grouped(RoundHalfEven(IF c.v < 0 THEN -c.v ELSE c.v)))

\* display_df["Total_Penjualan"].map("{:,.0f}".format)
FormatTotals(t) ==
    SetColumn(t, Total_Penjualan,
              [r \in 1..Len(t.rows) |-> FormatAmount(Cell(t, r, Total_Penjualan))])

\* FilteredAfterDisplay when display_df is filtered itself, not a copy.
FilteredAfterDisplayShared(f) == FormatTotals(f)

\* filtered once display_df has been formatted: display_df is a copy
\* (line 141), so the assignment of line 142 does not reach filtered.
FilteredAfterDisplay(f) == f

-----------------------------------------------------------------------------
(* Inputs *)

File(columns, rows) == [exists |-> TRUE, columns |-> columns, rows |-> rows]

\* A path with no readable workbook behind it.
MissingFile == [exists |-> FALSE, columns |-> <<>>, rows |-> <<>>]

\* All sequences over S of length at most n.
SeqsUpTo(S, n) == UNION {[1..k -> S] : k \in 0..n}

\* Rows of the datasets of Spec, in the order of the canonical header:
\* one day at midnight, the next day at midnight and with a time of day, and
\* a row without a date; two of the items tie in their amount.
SaleRows ==
    { <<At(0, 0), Text("Coffee"), Text("Latte"), Whole(2), Whole(50000)>>,
      <<At(1, 1), Text("Food"), Text("Croissant"), Whole(1), Whole(25000)>>,
      <<At(1, 0), Text("Coffee"), Text("Espresso"), Whole(1), Whole(25000)>>,
      <<Null, Text("Coffee"), Text("Latte"), Whole(1), Whole(50000)>> }

\* A header that lacks the quantity column under any spelling.
HeaderWithoutJumlah == <<Tanggal, Kategori, Nama_Item, <<"Q", "t", "y">>, Total_Penjualan>>

Files ==
    {File(expected, rows) : rows \in SeqsUpTo(SaleRows, MaxRows)}
    \cup {MissingFile}
    \cup {File(HeaderWithoutJumlah, rows) : rows \in SeqsUpTo(SaleRows, 1)}

\* Calendar days the date picker is set to.
PickDays == {0, 1}

\* What date_input can return once touched: no date, a start date alone, or
\* a start and an end date.
DatePicks ==
    {<<>>} \cup {<<Date(d)>> : d \in PickDays}
    \cup {<<Date(p[1]), Date(p[2])>> : p \in {q \in PickDays \X PickDays : q[1] <= q[2]}}

\* Slider positions the model moves to.
TopNPicks == {TopNMin, TopNMax}

-----------------------------------------------------------------------------
(* The script run *)

\* Names of a run that has not reached their assignment.
Unbound ==
    /\ df = NoTable
    /\ min_date = Null /\ max_date = Null
    /\ date_range = <<>>
    /\ start_date = Null /\ end_date = Null
    /\ kategori_list = <<>> /\ selected_kat = ""
    /\ item_list = <<>> /\ selected_items = {}
    /\ top_n = 0
    /\ filtered = NoTable
    /\ bar = <<>> /\ line = <<>> /\ pie = <<>>
    /\ display_df = NoTable

\* The same of the next state.
UnboundNext ==
    /\ df' = NoTable
    /\ min_date' = Null /\ max_date' = Null
    /\ date_range' = <<>>
    /\ start_date' = Null /\ end_date' = Null
    /\ kategori_list' = <<>> /\ selected_kat' = ""
    /\ item_list' = <<>> /\ selected_items' = {}
    /\ top_n' = 0
    /\ filtered' = NoTable
    /\ bar' = <<>> /\ line' = <<>> /\ pie' = <<>>
    /\ display_df' = NoTable

Init ==
    /\ file \in Files
    /\ cache = NoCache
    /\ ui = NoPicks
    /\ pc = "start"
    /\ err = FALSE
    /\ Unbound

\* Lines 53-54: load_data returns.
LoadOk ==
    /\ pc = "start"
    /\ CachedLoad(cache, file).ok
    /\ df' = CachedLoad(cache, file).table
    /\ cache' = [hit |-> TRUE, table |-> CachedLoad(cache, file).table]
    /\ pc' = "loaded"
    /\ UNCHANGED <<file, ui, err, min_date, max_date, date_range, start_date, end_date,
                   kategori_list, selected_kat, item_list, selected_items, top_n,
                   filtered, bar, line, pie, display_df>>

\* Lines 55-57: load_data raises; the error is shown and the run stops.
LoadFail ==
    /\ pc = "start"
    /\ ~CachedLoad(cache, file).ok
    /\ err' = TRUE
    /\ pc' = AfterLoadError
    /\ UNCHANGED <<file, cache, ui, df, min_date, max_date, date_range, start_date,
                   end_date, kategori_list, selected_kat, item_list, selected_items,
                   top_n, filtered, bar, line, pie, display_df>>

\* Lines 63-76: the four widgets.
Sidebar ==
    /\ pc = "loaded"
    /\ min_date' = ColumnMin(df, Tanggal)
    /\ max_date' = ColumnMax(df, Tanggal)
    /\ date_range' = DateInput(ui.date_range, min_date', max_date')
    /\ start_date' = Bounds(date_range', min_date', max_date')[1]
    /\ end_date' = Bounds(date_range', min_date', max_date')[2]
    /\ kategori_list' = <<Semua>> \o SortedUnique(df, Kategori)
    /\ selected_kat' = SelectBox(ui.kat, kategori_list')
    /\ item_list' = SortedUnique(df, Nama_Item)
    /\ selected_items' = MultiSelect(ui.items, item_list')
    /\ top_n' = Slider(ui.top_n)
    /\ pc' = "sidebar"
    /\ UNCHANGED <<file, cache, ui, err, df, filtered, bar, line, pie, display_df>>

\* Line 64 when no row has a date: date_input is handed NaT for both ends.
\* What the widget does with it is not decided in this repository, so the
\* run may also end there with the widget's exception (Sidebar is the other
\* outcome).
SidebarRaise ==
    /\ pc = "loaded"
    /\ IsNull(ColumnMin(df, Tanggal))
    /\ min_date' = ColumnMin(df, Tanggal)
    /\ max_date' = ColumnMax(df, Tanggal)
    /\ pc' = "raised"
    /\ UNCHANGED <<file, cache, ui, err, df, date_range, start_date, end_date,
                   kategori_list, selected_kat, item_list, selected_items, top_n,
                   filtered, bar, line, pie, display_df>>

\* Lines 79-87
ApplyFilter ==
    /\ pc = "sidebar"
    /\ filtered' = Select(df, Mask(df, start_date, end_date, selected_kat, selected_items))
    /\ pc' = "filtered"
    /\ UNCHANGED <<file, cache, ui, err, df, min_date, max_date, date_range, start_date,
                   end_date, kategori_list, selected_kat, item_list, selected_items,
                   top_n, bar, line, pie, display_df>>

\* Lines 98-137: the aggregates behind the bar, line and pie charts (the
\* scatter plot and the histogram read filtered and assign nothing).
Charts ==
    /\ pc = "filtered"
    /\ bar' = GroupSum(filtered, Kategori)
    /\ line' = GroupSum(filtered, Tanggal)
    /\ pie' \in TopN(GroupSum(filtered, Nama_Item), top_n)
    /\ pc' = "charts"
    /\ UNCHANGED <<file, cache, ui, err, df, min_date, max_date, date_range, start_date,
                   end_date, kategori_list, selected_kat, item_list, selected_items,
                   top_n, filtered, display_df>>

\* Lines 140-143
Table ==
    /\ pc = "charts"
    /\ display_df' = FormatTotals(filtered)
    /\ filtered' = FilteredAfterDisplay(filtered)
    /\ pc' = "done"
    /\ UNCHANGED <<file, cache, ui, err, df, min_date, max_date, date_range, start_date,
                   end_date, kategori_list, selected_kat, item_list, selected_items,
                   top_n, bar, line, pie>>

\* A widget change starts the script again from the top: the names of the
\* finished run are gone, the cache and the widget state stay.
Rerun(picks) ==
    /\ pc = "done"
    /\ ui' = picks
    /\ pc' = "start"
    /\ err' = FALSE
    /\ UnboundNext
    /\ UNCHANGED <<file, cache>>

PickDateRange == \E v \in DatePicks :
    Rerun([ui EXCEPT !.date_range = [set |-> TRUE, v |-> v]])

PickKategori == \E i \in 1..Len(kategori_list) :
    Rerun([ui EXCEPT !.kat = [set |-> TRUE, v |-> kategori_list[i]]])

PickItems == \E S \in SUBSET {item_list[i] : i \in 1..Len(item_list)} :
    Rerun([ui EXCEPT !.items = [set |-> TRUE, v |-> S]])

PickTopN == \E n \in TopNPicks :
    Rerun([ui EXCEPT !.top_n = [set |-> TRUE, v |-> n]])

Next ==
    \/ LoadOk
    \/ LoadFail
    \/ Sidebar
    \/ SidebarRaise
    \/ ApplyFilter
    \/ Charts
    \/ Table
    \/ PickDateRange
    \/ PickKategori
    \/ PickItems
    \/ PickTopN

Spec == Init /\ [][Next]_vars

-----------------------------------------------------------------------------
(* load_data alone, on headers and cells of every kind *)

\* A well-formed row, in the order of the canonical header.
BaseRow == <<At(0, 0), Text("Coffee"), Text("Latte"), Whole(2), Whole(50000)>>

\* Cells a workbook can hold under each column: dates with and without a
\* time, parsable and unparsable text, empty and missing cells, whole,
\* fractional and negative numbers.
RawCells ==
    <<{At(1, 1), Null, Text("besok"), Text(""), Text("1970-01-02")},
      {Text("Food"), Null, Text(""), Text("NA"), Whole(3), Text(" ")},
      {Text("Croissant"), Null, Text("")},
      {Num(2 * Denom + 1), Whole(-1), Num(-1), Null, Text("abc"), Text("3"), Text("-2"), Text("")},
      {Num(1), Whole(-5), Null, Text("abc"), Text("-2"), Text("")}>>

\* BaseRow and every row that differs from it in one cell.
RawRows ==
    {BaseRow} \cup
    UNION {{[BaseRow EXCEPT ![j] = c] : c \in RawCells[j]} : j \in 1..Len(BaseRow)}

\* Spellings of a column name in a header: as expected, lower case, upper
\* case inside blanks, and a name that matches no expected column.
Spellings(name) ==
    {name, Lower(name), <<" ">> \o Upper(name) \o <<" ">>, <<"x">> \o name}

Headers ==
    {<<h[1], h[2], h[3], h[4], h[5]>> :
        h \in Spellings(Tanggal) \X Spellings(Kategori) \X Spellings(Nama_Item)
              \X Spellings(Jumlah) \X Spellings(Total_Penjualan)}

\* Two columns that differ in case only, with and without the exact name.
TwoSpellings ==
    { File(<<Lower(Tanggal), Kategori, Nama_Item, Jumlah, Total_Penjualan, Upper(Tanggal)>>,
           <<BaseRow \o <<At(1, 1)>>>>),
      File(<<Lower(Tanggal), Kategori, Nama_Item, Jumlah, Total_Penjualan, Tanggal>>,
           <<BaseRow \o <<At(1, 1)>>>>) }

LoadFiles ==
    {File(h, <<BaseRow>>) : h \in Headers}
    \cup TwoSpellings
    \cup {File(expected, rows) : rows \in SeqsUpTo(RawRows, MaxRows)}
    \cup {MissingFile}

InitLoad ==
    /\ file \in LoadFiles
    /\ cache = NoCache
    /\ ui = NoPicks
    /\ pc = "start"
    /\ err = FALSE
    /\ Unbound

NextLoad ==
    \/ LoadOk
    \/ LoadFail

SpecLoad == InitLoad /\ [][NextLoad]_vars

-----------------------------------------------------------------------------
(* The top-N step alone, on more item groups than the slider's minimum *)

TopNItems == <<"Croissant", "Espresso", "Latte", "Mocha">>

\* One sale per item, all on one day, each of one of two amounts.
TopNFiles ==
    {File(expected,
          [i \in 1..Len(TopNItems) |->
              <<At(0, 0), Text("Coffee"), Text(TopNItems[i]), Whole(1), Whole(a[i])>>]) :
        a \in [1..Len(TopNItems) -> {25000, 50000}]}

\* A run that has loaded one of TopNFiles, with the slider anywhere and the
\* other widgets untouched, as ApplyFilter leaves it.
InitTopN ==
    /\ file \in TopNFiles
    /\ cache = [hit |-> TRUE, table |-> LoadData(file).table]
    /\ ui \in {NoPicks} \cup {[NoPicks EXCEPT !.top_n = [set |-> TRUE, v |-> n]] :
                                n \in TopNMin..TopNMax}
    /\ pc = "filtered"
    /\ err = FALSE
    /\ df = LoadData(file).table
    /\ min_date = ColumnMin(df, Tanggal)
    /\ max_date = ColumnMax(df, Tanggal)
    /\ date_range = DateInput(ui.date_range, min_date, max_date)
    /\ start_date = Bounds(date_range, min_date, max_date)[1]
    /\ end_date = Bounds(date_range, min_date, max_date)[2]
    /\ kategori_list = <<Semua>> \o SortedUnique(df, Kategori)
    /\ selected_kat = SelectBox(ui.kat, kategori_list)
    /\ item_list = SortedUnique(df, Nama_Item)
    /\ selected_items = MultiSelect(ui.items, item_list)
    /\ top_n = Slider(ui.top_n)
    /\ filtered = Select(df, Mask(df, start_date, end_date, selected_kat, selected_items))
    /\ bar = <<>> /\ line = <<>> /\ pie = <<>>
    /\ display_df = NoTable

NextTopN == Charts

SpecTopN == InitTopN /\ [][NextTopN]_vars

-----------------------------------------------------------------------------
(* Properties *)

Rows(t) == 1..Len(t.rows)

\* The rows of t at the positions I, in their order in t.
RowsAt(t, I) ==
    LET idx == SortPairs({<<r, r>> : r \in I})
    IN [i \in 1..Len(idx) |-> t.rows[idx[i]]]

AfterFilter == pc \in {"filtered", "charts", "done"}
AfterCharts == pc \in {"charts", "done"}

\* The cell of the workbook behind df[name] of row r (load_data moves no
\* column and no row).
RawCell(r, name) == file.rows[r][ColIndex(df, name)]

\* The workbook cell reads as a number below zero.
ReadsNegative(c) ==
    \/ c.k = "num" /\ c.v < 0
    \/ c.k = "text" /\ c.v \in NumericText /\ TextNumber(c.v) < 0

\* The workbook cell reads as a number.
ReadsNumber(c) == c.k = "num" \/ (c.k = "text" /\ c.v \in NumericText)

C1_LabelsAndCount ==
    /\ Len(df.rows) = Len(file.rows)
    /\ \A r \in Rows(df) :
          /\ Cell(df, r, Jumlah).k = "int"
          /\ Cell(df, r, Total_Penjualan).k = "num"
          /\ Cell(df, r, Kategori).k = "text" /\ Cell(df, r, Kategori).v # ""
          /\ Cell(df, r, Nama_Item).k = "text" /\ Cell(df, r, Nama_Item).v # ""

C9_Stripped == [j \in 1..Len(file.columns) |-> Strip(file.columns[j])]
C9_Normalized == NormalizeColumns(ReadExcel(file).table)

\* Columns whose stripped name is col up to case.
C9_Matches(col) == {j \in 1..Len(file.columns) : Lower(C9_Stripped[j]) = Lower(col)}

\* The workbook with every column that is an expected name up to case and
\* blanks spelled as expected.
C9_Canonical(f) ==
    [f EXCEPT !.columns =
        [j \in 1..Len(f.columns) |->
            IF \E i \in 1..Len(expected) : Lower(Strip(f.columns[j])) = Lower(expected[i])
            THEN expected[CHOOSE i \in 1..Len(expected) :
                              Lower(Strip(f.columns[j])) = Lower(expected[i])]
            ELSE f.columns[j]]]

\* C9: for each expected column, when no column has exactly that name after
\* stripping and some column has it up to case, that column carries the
\* expected name after the loop; columns already named as expected keep
\* their name and place, no cell is touched by the renaming; and a workbook
\* whose columns are spelled in another case loads to the same table as the
\* workbook with the expected spellings.
C9_RenamesCaseInsensitively ==
    (pc # "start" /\ file.exists) =>
        /\ \A i \in 1..Len(expected) :
              (\A j \in 1..Len(file.columns) : C9_Stripped[j] # expected[i])
              /\ C9_Matches(expected[i]) # {}
              => \E j \in C9_Matches(expected[i]) : C9_Normalized.columns[j] = expected[i]
        /\ \A j \in 1..Len(file.columns) :
              (\E i \in 1..Len(expected) : C9_Stripped[j] = expected[i])
              => C9_Normalized.columns[j] = C9_Stripped[j]
        /\ C9_Normalized.rows = ReadExcel(file).table.rows
        /\ (\A i \in 1..Len(expected) : Cardinality(C9_Matches(expected[i])) = 1)
              => /\ pc = "loaded"
                 /\ df = LoadData(C9_Canonical(file)).table
                 /\ df.columns = C9_Normalized.columns

\* A load of a workbook whose date column is spelled "tanggal".
C9_Witness ==
    /\ pc = "loaded"
    /\ file.columns[1] = Lower(Tanggal)
    /\ df.columns[1] = Tanggal
    /\ Cell(df, 1, Tanggal) = At(0, 0)

\* Positions of the rows of df that have a date.
Dated == {r \in Rows(df) : Cell(df, r, Tanggal).k = "dt"}

AllItems == {Cell(df, r, Nama_Item).v : r \in Rows(df)}

\* C2 as stated: with the date range left at its default (min_date,
\* max_date), the category at "Semua" and every item selected, the filtered
\* table holds exactly the rows whose Tanggal is not null, those on the
\* maximum date included.
C2_FullRangeKeepsDatedRows ==
    (AfterFilter /\ ~ui.date_range.set /\ selected_kat = Semua /\ selected_items = AllItems)
        => filtered.rows = RowsAt(df, Dated)

\* C3 as stated: once the user has emptied the item multi-select, the filter
\* selects no row.
C3_EmptySelectionSelectsNothing ==
    (AfterFilter /\ ui.items.set /\ selected_items = {}) => filtered.rows = <<>>

\* Midnight of a date, or the timestamp itself: what the mask compares with.
BoundTick(x) == IF x.k = "date" THEN x.v * TicksPerDay ELSE x.v

\* The three predicates of the filter on row r of df.  A picked date stands
\* for its midnight, both comparisons are inclusive.
InDateRange(r) ==
    /\ r \in Dated
    /\ start_date.k # "null" /\ end_date.k # "null"
    /\ BoundTick(start_date) <= Cell(df, r, Tanggal).v
    /\ Cell(df, r, Tanggal).v <= BoundTick(end_date)
InKategori(r) == Cell(df, r, Kategori).v = selected_kat
InItems(r) == Cell(df, r, Nama_Item).v \in selected_items

\* A predicate is active when its widget selects something: a category
\* other than "Semua", an item selection that is not empty.
KategoriActive == selected_kat # Semua
ItemsActive == selected_items # {}

Matching ==
    {r \in Rows(df) : /\ InDateRange(r)
                      /\ KategoriActive => InKategori(r)
                      /\ ItemsActive => InItems(r)}

\* C4: the filtered table is the rows of df, in their order, that satisfy
\* the conjunction of the active predicates (date within the inclusive
\* bounds, category equal to the selected one, item among the selected
\* ones); applying the item predicate before the category predicate gives
\* the same table.
C4_FilterIsConjunction ==
    AfterFilter =>
        /\ filtered.columns = df.columns
        /\ filtered.rows = RowsAt(df, Matching)
        /\ filtered =
              Select(df, KatMask(df, ItemMask(df, DateMask(df, start_date, end_date),
                                              selected_items), selected_kat))

\* A run where a picked category and a picked item set each remove rows.
C4_Witness ==
    /\ pc = "filtered"
    /\ ui.kat.set /\ KategoriActive
    /\ ui.items.set /\ ItemsActive
    /\ \E r \in Rows(df) : InDateRange(r) /\ InKategori(r) /\ ~InItems(r)
    /\ \E r \in Rows(df) : InDateRange(r) /\ ~InKategori(r) /\ InItems(r)
    /\ Len(filtered.rows) < Len(df.rows)

AfterSidebar == pc \in {"sidebar", "filtered", "charts", "done"}

\* C10: when date_input returns anything but two dates, the bounds of the
\* filter are the table's own min_date and max_date, not the date picked so
\* far; when it returns two dates, these are the bounds, both inclusive.
C10_BoundsFallBackToFullRange ==
    /\ AfterSidebar =>
          /\ min_date = ColumnMin(df, Tanggal) /\ max_date = ColumnMax(df, Tanggal)
          /\ Len(date_range) = 2 => start_date = date_range[1] /\ end_date = date_range[2]
          /\ Len(date_range) # 2 => start_date = min_date /\ end_date = max_date
    /\ AfterFilter =>
          /\ Len(date_range) # 2 =>
                \A r \in Dated :
                    (KategoriActive => InKategori(r)) /\ (ItemsActive => InItems(r))
                    => r \in Matching /\ \E i \in Rows(filtered) : filtered.rows[i] = df.rows[r]
          /\ Len(date_range) = 2 =>
                \A r \in Rows(df) :
                    (KategoriActive => InKategori(r)) /\ (ItemsActive => InItems(r))
                    => ((\E i \in Rows(filtered) : filtered.rows[i] = df.rows[r])
                        <=> /\ r \in Dated
                            /\ date_range[1].k = "date" /\ date_range[2].k = "date"
                            /\ date_range[1].v * TicksPerDay <= Cell(df, r, Tanggal).v
                            /\ Cell(df, r, Tanggal).v <= date_range[2].v * TicksPerDay)

\* A run with only a start date picked, the later of two days, in which the
\* row of the earlier day is still selected.
C10_Witness ==
    /\ pc = "filtered"
    /\ ui.date_range.set /\ Len(date_range) = 1
    /\ \E r \in Dated :
          /\ Cell(df, r, Tanggal).v < BoundTick(date_range[1])
          /\ \E i \in Rows(filtered) : filtered.rows[i] = df.rows[r]

\* Position of a row of the aggregate s.
PosIn(s, row) == CHOOSE j \in 1..Len(s) : s[j] = row

InSeq(s, row) == \E j \in 1..Len(s) : s[j] = row

\* C5 as stated: the top-N step returns min(n, number of item groups) rows
\* of the per-item totals, in non-increasing order of their total, none
\* smaller than a row left out, and rows of equal total in the order they
\* have in the aggregate (a stable sort).
C5_TopNIsStable ==
    pc = "charts" =>
        LET agg == GroupSum(filtered, Nama_Item)
        IN /\ Len(pie) = (IF top_n < Len(agg) THEN top_n ELSE Len(agg))
           /\ \A i \in 1..Len(pie) : InSeq(agg, pie[i])
           /\ NonIncreasing(pie)
           /\ \A j \in 1..Len(agg) : ~InSeq(pie, agg[j]) =>
                 \A i \in 1..Len(pie) :
                     /\ pie[i].sum >= agg[j].sum
                     /\ pie[i].sum = agg[j].sum => PosIn(agg, pie[i]) < j
           /\ \A i, k \in 1..Len(pie) :
                 (i < k /\ pie[i].sum = pie[k].sum) => PosIn(agg, pie[i]) < PosIn(agg, pie[k])

RECURSIVE SumOver(_, _)
\* Sum of Total_Penjualan over the rows of t at the positions I.
SumOver(t, I) ==
    IF I = {} THEN 0
    ELSE LET r == CHOOSE x \in I : TRUE
         IN Cell(t, r, Total_Penjualan).v + SumOver(t, I \ {r})

RECURSIVE SumOfSums(_)
SumOfSums(s) == IF s = <<>> THEN 0 ELSE Head(s).sum + SumOfSums(Tail(s))

\* Every row of agg is a value of column name in filtered with the sum of
\* Total_Penjualan over the filtered rows of that value, and no value is
\* there twice.
GroupRows(agg, name) ==
    /\ \A i, j \in 1..Len(agg) : agg[i].key = agg[j].key => i = j
    /\ \A i \in 1..Len(agg) :
          /\ \E r \in Rows(filtered) : Cell(filtered, r, name) = agg[i].key
          /\ agg[i].sum = SumOver(filtered, {r \in Rows(filtered) :
                                                Cell(filtered, r, name) = agg[i].key})

\* agg has a row for every value of column name in filtered, and the sums
\* add up to the total of filtered.
GroupsAll(agg, name) ==
    /\ {agg[i].key : i \in 1..Len(agg)} = {Cell(filtered, r, name) : r \in Rows(filtered)}
    /\ SumOfSums(agg) = SumOver(filtered, Rows(filtered))
    /\ filtered.rows = <<>> => agg = <<>>

\* C6: each aggregate (by Kategori, by Tanggal, by Nama_Item) has one row per
\* distinct key value of the filtered rows, holding the sum of
\* Total_Penjualan over the filtered rows of that key; the group sums add up
\* to the sum over all filtered rows; an empty filtered table gives empty
\* aggregates.  (The per-item aggregate is read from pie, which holds all of
\* its rows whenever there are no more items than top_n.)
C6_GroupSums ==
    AfterCharts =>
        /\ GroupRows(bar, Kategori) /\ GroupsAll(bar, Kategori)
        /\ GroupRows(line, Tanggal) /\ GroupsAll(line, Tanggal)
        /\ GroupRows(pie, Nama_Item)
        /\ Cardinality({Cell(filtered, r, Nama_Item) : r \in Rows(filtered)}) <= top_n
              => GroupsAll(pie, Nama_Item)

\* Two filtered rows of one category and of different items and dates, summed
\* into one bar.
C6_Witness ==
    /\ pc = "charts"
    /\ Len(filtered.rows) = 2
    /\ Len(bar) = 1 /\ bar[1].sum = Whole(75000).v
    /\ Len(line) = 2 /\ Len(pie) = 2

\* The table load_data returned in the first run of the session, which the
\* cache has held since, and the widget values the session's picks stand for
\* on it.
Loaded == cache.table

PickedKat == IF ui.kat.set THEN ui.kat.v ELSE Semua
PickedItems ==
    IF ui.items.set THEN ui.items.v ELSE {Cell(Loaded, r, Nama_Item).v : r \in Rows(Loaded)}
PickedLow ==
    IF ui.date_range.set /\ Len(ui.date_range.v) = 2 THEN ui.date_range.v[1]
    ELSE IF ui.date_range.set THEN ColumnMin(Loaded, Tanggal)
    ELSE ToDate(ColumnMin(Loaded, Tanggal))
PickedHigh ==
    IF ui.date_range.set /\ Len(ui.date_range.v) = 2 THEN ui.date_range.v[2]
    ELSE IF ui.date_range.set THEN ColumnMax(Loaded, Tanggal)
    ELSE ToDate(ColumnMax(Loaded, Tanggal))

\* Rows of the loaded table the current picks select.
PickedRows ==
    LET low == PickedLow
        high == PickedHigh
        kat == PickedKat
        items == PickedItems
    IN {r \in Rows(Loaded) :
          /\ Cell(Loaded, r, Tanggal).k = "dt"
          /\ low.k # "null" /\ high.k # "null"
          /\ BoundTick(low) <= Cell(Loaded, r, Tanggal).v
          /\ Cell(Loaded, r, Tanggal).v <= BoundTick(high)
          /\ kat # Semua => Cell(Loaded, r, Kategori).v = kat
          /\ items # {} => Cell(Loaded, r, Nama_Item).v \in items}

FromPicks == [Loaded EXCEPT !.rows = RowsAt(Loaded, PickedRows)]

\* C7: in every run, whatever was picked in the runs before, df is the table
\* as loaded from the workbook, the filtered table is the current widget
\* values applied to that table, the aggregates and the display table are
\* those of that filtered table, and neither filtering, aggregation nor the
\* formatting of the display table changes df, the cached table or filtered.
C7_RunsStartFromLoadedTable ==
    /\ cache.hit => cache.table = LoadData(file).table
    /\ pc \in {"loaded", "raised"} \cup {"sidebar", "filtered", "charts", "done"}
          => cache.hit /\ df = Loaded
    /\ AfterFilter => filtered = FromPicks
    /\ AfterCharts =>
          LET expect == FromPicks
          IN /\ bar = GroupSum(expect, Kategori)
             /\ line = GroupSum(expect, Tanggal)
             /\ pie \in TopN(GroupSum(expect, Nama_Item), Slider(ui.top_n))
             /\ pc = "done" => display_df = FormatTotals(expect)

\* The end of a run after the date range, the category and the items have
\* all been picked in earlier runs, with rows selected and formatted.
C7_Witness ==
    /\ pc = "done"
    /\ ui.date_range.set /\ ui.kat.set /\ ui.items.set /\ ui.top_n.set
    /\ Len(filtered.rows) > 0
    /\ Len(filtered.rows) < Len(df.rows)
    /\ Cell(display_df, 1, Total_Penjualan) \in {Text("50,000"), Text("25,000")}

\* load_data raises for the workbook: it cannot be read, or an expected
\* column is absent under every spelling.
LoadRaises ==
    \/ ~file.exists
    \/ LET have == {Lower(Strip(file.columns[j])) : j \in 1..Len(file.columns)}
       IN \E i \in 1..Len(expected) : Lower(expected[i]) \notin have

\* C8: when load_data raises, the error is shown and the run stops: no table
\* is bound to df, and no filter, aggregate, chart or table step has run or
\* runs afterwards.
C8_LoadErrorStopsRun ==
    (pc # "start" /\ LoadRaises) =>
        /\ pc = "stopped"
        /\ err
        /\ ~cache.hit
        /\ Unbound

\* A stopped run of a workbook that could be read and lacks a column.
C8_Witness == pc = "stopped" /\ err /\ file.exists

====
